---- MODULE Spec2Model ----
(***************************************************************************)
(* auid: 64 bit timestamp-first unique identifier (src/src/lib.rs).        *)
(*                                                                         *)
(* An i64 is held as three limbs of its two's complement bit pattern,      *)
(*   hi  = bits 63..48, read as a signed 16 bit number (-2^15 .. 2^15-1)   *)
(*   mid = bits 47..24  (0 .. 2^24-1)                                      *)
(*   lo  = bits 23..0   (0 .. 2^24-1)                                      *)
(* so that its value is hi*2^48 + mid*2^24 + lo and every intermediate     *)
(* number stays inside the model checker's integers.  Texts are sequences  *)
(* of one-character strings.                                               *)
(***************************************************************************)
EXTENDS Integers, Sequences, FiniteSets, TLC

VARIABLES ids, call

vars == <<ids, call>>

(***************************************************************************)
(* i64 arithmetic on limbs                                                 *)
(***************************************************************************)
I64(h, m, l) == [hi |-> h, mid |-> m, lo |-> l]

\* the unsigned 16 bit pattern of a signed 16 bit number, and back
Unsigned16(h) == IF h < 0 THEN h + 2^16 ELSE h
Signed16(u) == IF u >= 2^15 THEN u - 2^16 ELSE u

\* a < b on i64 (signed comparison)
I64Lt(a, b) ==
    \/ a.hi < b.hi
    \/ a.hi = b.hi /\ a.mid < b.mid
    \/ a.hi = b.hi /\ a.mid = b.mid /\ a.lo < b.lo

RECURSIVE OrNat(_, _)
OrNat(a, b) ==
    IF a = 0 THEN b
    ELSE IF b = 0 THEN a
    ELSE (IF a % 2 = 1 \/ b % 2 = 1 THEN 1 ELSE 0) + 2 * OrNat(a \div 2, b \div 2)

\* a | b on i64
I64Or(a, b) ==
    I64(Signed16(OrNat(Unsigned16(a.hi), Unsigned16(b.hi))),
        OrNat(a.mid, b.mid),
        OrNat(a.lo, b.lo))

\* v << 16, what a shift by the wrong width would give
ShlBy16(v) ==
    I64(Signed16((v.mid \div 256) % 2^16),
        (v.mid % 256) * 65536 + (v.lo \div 256),
        (v.lo % 256) * 65536)

\* v << 24 on i64: the bits shifted past bit 63 are dropped
Shl24(v) == I64(Signed16(v.mid % 2^16), v.lo, 0)

\* i64::to_be_bytes
to_be_bytes(v) ==
    LET u == Unsigned16(v.hi) IN
    << u \div 256, u % 256,
       v.mid \div 65536, (v.mid \div 256) % 256, v.mid % 256,
       v.lo \div 65536, (v.lo \div 256) % 256, v.lo % 256 >>

\* i64::to_le_bytes, the other byte order (called nowhere in the library)
to_le_bytes(v) ==
    LET u == Unsigned16(v.hi) IN
    << v.lo % 256, (v.lo \div 256) % 256, v.lo \div 65536,
       v.mid % 256, (v.mid \div 256) % 256, v.mid \div 65536,
       u % 256, u \div 256 >>

\* i64::from_be_bytes
from_be_bytes(arr) ==
    I64(Signed16(arr[1] * 256 + arr[2]),
        arr[3] * 65536 + arr[4] * 256 + arr[5],
        arr[6] * 65536 + arr[7] * 256 + arr[8])

(***************************************************************************)
(* Uid, Result and Error                                                   *)
(***************************************************************************)
\* pub struct Uid(i64): a tuple struct of one field
Uid(v) == <<v>>

\* Error::Decoding(String)
Decoding(msg) == [kind |-> "Decoding", msg |-> msg]

Ok(v) == [tag |-> "Ok", val |-> v]
Err(e) == [tag |-> "Err", err |-> e]
\* a panic (copy_from_slice on slices of different lengths)
Panic == [tag |-> "Panic"]

\* [0u8; 8]
ZeroArr == [i \in 1..8 |-> 0]

\* the decimal digits of n, as format!("{}", n) writes them
RECURSIVE Decimal(_)
Decimal(n) ==
    LET d == <<"0", "1", "2", "3", "4", "5", "6", "7", "8", "9">> IN
    IF n < 10 THEN <<d[n + 1]>> ELSE Decimal(n \div 10) \o <<d[(n % 10) + 1]>>

\* format!("expected len to be 8, but was {}", value.len())
LenMessage(n) == <<"expected len to be 8, but was ">> \o Decimal(n)

\* the field read as an unsigned number, what a conversion through u64
\* would give
i64_from_unsigned(value) == I64(Unsigned16(value[1].hi), value[1].mid, value[1].lo)

\* impl From<Uid> for i64
i64_from(value) == value[1]

\* impl From<i64> for Uid
Uid_from(value) == Uid(value)

\* the bytes in little-endian order, what value.0.to_le_bytes() would give
bytes_from_le(value) == to_le_bytes(value[1])

\* impl From<Uid> for [u8; 8]
bytes_from(value) == to_be_bytes(value[1])

\* try_from with the length test written value.len() < 8
try_from_at_least(value) ==
    IF Len(value) < 8
    THEN Err(Decoding(LenMessage(Len(value))))
    ELSE IF Len(value) # Len(ZeroArr) THEN Panic
    ELSE Ok(Uid(from_be_bytes(value)))

\* impl TryFrom<&[u8]> for Uid
try_from(value) ==
    IF Len(value) # 8
    THEN Err(Decoding(LenMessage(Len(value))))
    ELSE IF Len(value) # Len(ZeroArr) THEN Panic
    ELSE Ok(Uid(from_be_bytes(value)))

\* Uid::new with the random fill written random_bytes[4..7]
new_fills_4_to_7(now, rnd) ==
    LET timestamp == Shl24(now)
        random_bytes == from_be_bytes([i \in 1..8 |->
                            IF i >= 5 /\ i <= 7 THEN rnd[i - 4] ELSE ZeroArr[i]])
    IN  Uid(I64Or(timestamp, random_bytes))

\* Uid::new, at wall-clock second now with the three random bytes rnd
new(now, rnd) ==
    LET timestamp == Shl24(now)
        random_bytes == from_be_bytes([i \in 1..8 |->
                            IF i >= 6 THEN rnd[i - 5] ELSE ZeroArr[i]])
    IN  Uid(I64Or(timestamp, random_bytes))

(***************************************************************************)
(* Helpers on sequences                                                    *)
(***************************************************************************)
\* the position of c in alphabet, 0 when it is not there
IndexIn(alphabet, c) ==
    IF \E i \in DOMAIN alphabet : alphabet[i] = c
    THEN CHOOSE i \in DOMAIN alphabet : alphabet[i] = c
    ELSE 0

\* the number a sequence of bits writes, most significant first
RECURSIVE BinVal(_)
BinVal(s) ==
    IF s = <<>> THEN 0 ELSE 2 * BinVal(SubSeq(s, 1, Len(s) - 1)) + s[Len(s)]

Reverse(s) == [i \in 1..Len(s) |-> s[Len(s) + 1 - i]]

\* how many leading elements of s equal z
RECURSIVE LeadingCount(_, _)
LeadingCount(s, z) ==
    IF s = <<>> \/ s[1] # z THEN 0 ELSE 1 + LeadingCount(Tail(s), z)

(***************************************************************************)
(* base16: the faster-hex crate, as Uid calls it                           *)
(***************************************************************************)
HexLower ==
    << "0", "1", "2", "3", "4", "5", "6", "7", "8", "9", "a", "b", "c", "d", "e", "f" >>
HexUpper ==
    << "0", "1", "2", "3", "4", "5", "6", "7", "8", "9", "A", "B", "C", "D", "E", "F" >>

\* the value of a hex digit of either case, -1 for any other character
HexValue(c) ==
    IF IndexIn(HexLower, c) # 0 THEN IndexIn(HexLower, c) - 1
    ELSE IF IndexIn(HexUpper, c) # 0 THEN IndexIn(HexUpper, c) - 1
    ELSE -1

\* faster_hex::hex_string
hex_string(src) ==
    [k \in 1..2 * Len(src) |->
        IF k % 2 = 1 THEN HexLower[(src[(k + 1) \div 2] \div 16) + 1]
        ELSE HexLower[(src[k \div 2] % 16) + 1]]

\* faster_hex::hex_decode(src, dst): the result and dst as it leaves it.
\* src shorter than 2 * dst.len(), or of odd length, is InvalidLength; a
\* character that is no hex digit is InvalidChar; otherwise every byte of dst
\* is filled from the front of src, and what follows in src is not looked at
\* again.
hex_decode(src, dst) ==
    IF Len(src) < 2 * Len(dst) \/ Len(src) % 2 # 0
    THEN [res |-> Err("InvalidLength"), dst |-> dst]
    ELSE IF \E k \in DOMAIN src : HexValue(src[k]) < 0
    THEN [res |-> Err("InvalidChar"), dst |-> dst]
    ELSE [res |-> Ok(<<>>),
          dst |-> [i \in DOMAIN dst |->
                      16 * HexValue(src[2 * i - 1]) + HexValue(src[2 * i])]]

(***************************************************************************)
(* base32 and base64: the data-encoding crate, as Uid calls it             *)
(***************************************************************************)
Base32Symbols ==
    << "A", "B", "C", "D", "E", "F", "G", "H", "I", "J", "K", "L", "M", "N", "O", "P",
       "Q", "R", "S", "T", "U", "V", "W", "X", "Y", "Z", "2", "3", "4", "5", "6", "7" >>
Base64Symbols ==
    << "A", "B", "C", "D", "E", "F", "G", "H", "I", "J", "K", "L", "M", "N", "O", "P",
       "Q", "R", "S", "T", "U", "V", "W", "X", "Y", "Z", "a", "b", "c", "d", "e", "f",
       "g", "h", "i", "j", "k", "l", "m", "n", "o", "p", "q", "r", "s", "t", "u", "v",
       "w", "x", "y", "z", "0", "1", "2", "3", "4", "5", "6", "7", "8", "9", "+", "/" >>

\* an encoding: its symbols, the bits a symbol carries, its padding character
\* (none: the empty sequence)
BASE32 == [symbols |-> Base32Symbols, bit |-> 5, pad |-> <<"=">>]
BASE32_NOPAD == [symbols |-> Base32Symbols, bit |-> 5, pad |-> <<>>]
BASE64 == [symbols |-> Base64Symbols, bit |-> 6, pad |-> <<"=">>]
BASE64_NOPAD == [symbols |-> Base64Symbols, bit |-> 6, pad |-> <<>>]

\* the characters of a full block: 8 of base32 (5 bytes), 4 of base64 (3 bytes)
BlockChars(enc) == IF enc.bit = 5 THEN 8 ELSE 4

\* bit p (from 1, most significant first) of a sequence of w-bit numbers
BitAt(s, w, p) == (s[((p - 1) \div w) + 1] \div 2^(w - 1 - ((p - 1) % w))) % 2

\* the symbols of input without padding: its bits in groups of enc.bit, the
\* last group filled with zero bits
EncodeSymbols(enc, input) ==
    LET nbits == 8 * Len(input)
        n == (nbits + enc.bit - 1) \div enc.bit
    IN  [j \in 1..n |->
            enc.symbols[BinVal([i \in 1..enc.bit |->
                LET p == (j - 1) * enc.bit + i IN
                IF p > nbits THEN 0 ELSE BitAt(input, 8, p)]) + 1]]

\* Encoding::encode
Encode(enc, input) ==
    LET syms == EncodeSymbols(enc, input)
        fill == (BlockChars(enc) - (Len(syms) % BlockChars(enc))) % BlockChars(enc)
    IN  IF enc.pad = <<>> THEN syms
        ELSE syms \o [i \in 1..fill |-> enc.pad[1]]

\* decoding of n symbols without padding: n must leave fewer than enc.bit
\* spare bits, every character must be a symbol, and the spare bits must be 0
DecodeChunk(enc, chunk) ==
    LET n == Len(chunk)
        spare == (n * enc.bit) % 8
        olen == (n * enc.bit) \div 8
        vals == [j \in 1..n |-> IndexIn(enc.symbols, chunk[j]) - 1]
    IN  IF spare >= enc.bit THEN Err("Length")
        ELSE IF \E j \in 1..n : vals[j] < 0 THEN Err("Symbol")
        ELSE IF \E p \in (8 * olen + 1)..(n * enc.bit) : BitAt(vals, enc.bit, p) # 0
        THEN Err("Trailing")
        ELSE Ok([k \in 1..olen |->
                    BinVal([i \in 1..8 |-> BitAt(vals, enc.bit, 8 * (k - 1) + i)])])

\* decoding of padded input, block by block: each block is its symbols
\* followed by the padding that fills it (a block of padding only is refused)
RECURSIVE DecodePadded(_, _)
DecodePadded(enc, input) ==
    IF input = <<>> THEN Ok(<<>>)
    ELSE LET bc == BlockChars(enc)
             block == SubSeq(input, 1, bc)
             pads == LeadingCount(Reverse(block), enc.pad[1])
             head == IF pads = bc THEN Err("Padding")
                     ELSE DecodeChunk(enc, SubSeq(block, 1, bc - pads))
             rest == DecodePadded(enc, SubSeq(input, bc + 1, Len(input)))
         IN  IF head.tag = "Err" THEN head
             ELSE IF rest.tag = "Err" THEN rest
             ELSE Ok(head.val \o rest.val)

\* Encoding::decode
Decode(enc, input) ==
    IF enc.pad = <<>> THEN DecodeChunk(enc, input)
    ELSE IF Len(input) % BlockChars(enc) # 0 THEN Err("Length")
    ELSE DecodePadded(enc, input)

(***************************************************************************)
(* base58: the bs58 crate, as Uid calls it                                 *)
(***************************************************************************)
\* Alphabet::BITCOIN
BITCOIN ==
    << "1", "2", "3", "4", "5", "6", "7", "8", "9", "A", "B", "C", "D", "E", "F", "G",
       "H", "J", "K", "L", "M", "N", "P", "Q", "R", "S", "T", "U", "V", "W", "X", "Y",
       "Z", "a", "b", "c", "d", "e", "f", "g", "h", "i", "j", "k", "m", "n", "o", "p",
       "q", "r", "s", "t", "u", "v", "w", "x", "y", "z" >>

\* one step of bs58's loops on a little-endian number of digits below `to`:
\* the number times `from` plus carry
RECURSIVE MulAdd(_, _, _, _)
MulAdd(digits, from, to, carry) ==
    IF digits = <<>>
    THEN IF carry = 0 THEN <<>> ELSE <<carry % to>> \o MulAdd(<<>>, from, to, carry \div to)
    ELSE LET c == carry + digits[1] * from
         IN  <<c % to>> \o MulAdd(Tail(digits), from, to, c \div to)

\* the little-endian number in base `to` that input writes in base `from`
RECURSIVE Rebase(_, _, _)
Rebase(input, from, to) ==
    IF input = <<>> THEN <<>>
    ELSE MulAdd(Rebase(SubSeq(input, 1, Len(input) - 1), from, to),
                from, to, input[Len(input)])

\* bs58::encode(input).with_alphabet(BITCOIN).into_string()
bs58_encode(input) ==
    LET digits == Rebase(input, 256, 58)
        zeros == [i \in 1..LeadingCount(input, 0) |-> 0]
        out == Reverse(digits \o zeros)
    IN  [i \in 1..Len(out) |-> BITCOIN[out[i] + 1]]

\* bs58::decode(input).into_vec(), with the default (BITCOIN) alphabet
bs58_decode(input) ==
    LET vals == [i \in 1..Len(input) |-> IndexIn(BITCOIN, input[i]) - 1]
    IN  IF \E i \in 1..Len(input) : vals[i] < 0 THEN Err("InvalidCharacter")
        ELSE Ok(Reverse(Rebase(vals, 58, 256)
                        \o [i \in 1..LeadingCount(vals, 0) |-> 0]))

(***************************************************************************)
(* The text codecs of Uid                                                  *)
(***************************************************************************)
\* err.to_string() of a library's decoding error
ErrString(e) == <<e>>

\* result.map_err(|err| Decoding(err.to_string()))
MapErr(r) == IF r.tag = "Err" THEN Err(Decoding(ErrString(r.err))) ELSE r

\* to_base16 with uppercase digits
to_base16_upper(self) ==
    LET b == to_be_bytes(self[1])
    IN  [k \in 1..2 * Len(b) |->
            IF k % 2 = 1 THEN HexUpper[(b[(k + 1) \div 2] \div 16) + 1]
            ELSE HexUpper[(b[k \div 2] % 16) + 1]]

\* Uid::to_base16
to_base16(self) == hex_string(to_be_bytes(self[1]))

\* Uid::to_hex
to_hex(self) == to_base16(self)

\* Uid::from_base16: decodes into a buffer of 8 bytes; Uid::try_from is not
\* called
from_base16(value) ==
    LET arr == ZeroArr
        d == hex_decode(value, arr)
    IN  IF d.res.tag = "Err" THEN MapErr(d.res)
        ELSE Ok(Uid(from_be_bytes(d.dst)))

\* Uid::from_hex
from_hex(value) == from_base16(value)

\* Uid::to_base32
to_base32(self) == Encode(BASE32, to_be_bytes(self[1]))

\* Uid::to_unpadded_base32
to_unpadded_base32(self) == Encode(BASE32_NOPAD, to_be_bytes(self[1]))

\* from_base32 that drops trailing '=' and decodes what is left without
\* padding
from_base32_trims(value) ==
    LET pads == LeadingCount(Reverse(value), "=")
        bytes == MapErr(Decode(BASE32_NOPAD, SubSeq(value, 1, Len(value) - pads)))
    IN  IF bytes.tag = "Err" THEN bytes ELSE try_from(bytes.val)

\* Uid::from_base32
from_base32(value) ==
    LET bytes == MapErr(Decode(BASE32, value))
    IN  IF bytes.tag = "Err" THEN bytes ELSE try_from(bytes.val)

\* Uid::from_unpadded_base32
from_unpadded_base32(value) ==
    LET bytes == MapErr(Decode(BASE32_NOPAD, value))
    IN  IF bytes.tag = "Err" THEN bytes ELSE try_from(bytes.val)

\* to_base58 of the bytes in little-endian order
to_base58_le(self) == bs58_encode(to_le_bytes(self[1]))

\* Uid::to_base58
to_base58(self) == bs58_encode(to_be_bytes(self[1]))

\* Uid::from_base58
from_base58(value) ==
    LET bytes == MapErr(bs58_decode(value))
    IN  IF bytes.tag = "Err" THEN bytes ELSE try_from(bytes.val)

\* Uid::to_base64
to_base64(self) == Encode(BASE64, to_be_bytes(self[1]))

\* Uid::to_unpadded_base64
to_unpadded_base64(self) == Encode(BASE64_NOPAD, to_be_bytes(self[1]))

\* Uid::from_base64
from_base64(value) ==
    LET bytes == MapErr(Decode(BASE64, value))
    IN  IF bytes.tag = "Err" THEN bytes ELSE try_from(bytes.val)

\* Uid::from_unpadded_base64
from_unpadded_base64(value) ==
    LET bytes == MapErr(Decode(BASE64_NOPAD, value))
    IN  IF bytes.tag = "Err" THEN bytes ELSE try_from(bytes.val)

(***************************************************************************)
(* Inputs                                                                  *)
(***************************************************************************)
\* the longest byte payload handed to try_from and to the encoders that make
\* the decoders' texts
MaxLen == 10

\* how many Uid::new() calls the log keeps
MaxIds == 2

\* wall-clock seconds Utc::now().timestamp() may return
TNow == I64(0, 101, 5501184)            \* 1 700 000 000
TNext == I64(0, 101, 5501185)           \* 1 700 000 001
TLast39 == I64(0, 32767, 16777215)      \* 2^39 - 1
TFirst40 == I64(0, 32768, 0)            \* 2^39: bit 39 set
TPast40 == I64(0, 65536, 1)             \* 2^40 + 1: bit 40 set
TBeforeEpoch == I64(-1, 16777215, 16777215)   \* -1
Timestamps == {TNow, TNext, TLast39, TFirst40, TPast40, TBeforeEpoch}

\* what thread_rng().fill(&mut random_bytes[5..8]) may write
Rands == {<<0, 0, 0>>, <<255, 255, 255>>}

\* 64 bit patterns
XZero == I64(0, 0, 0)
XLow == I64(0, 0, 255)                          \* 0x00000000000000ff
XMixed == I64(291, 4548489, 11259375)           \* 0x0123456789abcdef
XMinusOne == I64(-1, 16777215, 16777215)        \* 0xffffffffffffffff
XMin == I64(-32768, 0, 0)                       \* i64::MIN
XMax == I64(32767, 16777215, 16777215)          \* i64::MAX
I64Samples == {XZero, XLow, XMixed, XMinusOne, XMin, XMax}
UidSamples == {Uid(v) : v \in I64Samples}

\* the first n bytes of b, b repeated when n is past its end
Resize(b, n) == [i \in 1..n |-> b[((i - 1) % Len(b)) + 1]]

\* byte payloads of every length up to MaxLen
Payloads == {Resize(bytes_from(x), n) : x \in UidSamples, n \in 0..MaxLen}

\* texts that no encoder of this library writes
OddTexts ==
    { << "0", "1", "2", "3", "4", "5", "6", "7", "8", "9", "A", "B", "C", "D", "E", "F" >>,
      << "0", "1", "2", "3", "4", "5", "6", "7", "8", "9", "a", "b", "c", "d", "e", "g" >>,
      << "A", "E", "R", "U", "K", "Z", "4", "J", "V", "P", "G", "6", "7", "=", "=", "!" >>,
      << "A", "E", "R", "U", "K", "Z", "4", "J", "V", "P", "G", "6", "B" >>,
      << "A", "S", "N", "F", "Z", "4", "m", "r", "z", "e", "9" >>,
      << "=", "=", "=", "=" >>,
      << "0", "O", "I", "l" >> }

\* the decoders' arguments: what the encoders write for the identifiers, the
\* encodings of the payloads of every length, and the odd texts
HexTexts ==
    {to_base16(x) : x \in UidSamples} \cup {hex_string(p) : p \in Payloads} \cup OddTexts
Base32Texts ==
    {to_base32(x) : x \in UidSamples} \cup {to_unpadded_base32(x) : x \in UidSamples}
        \cup {Encode(BASE32, p) : p \in Payloads}
        \cup {Encode(BASE32_NOPAD, p) : p \in Payloads}
        \cup OddTexts
Base58Texts ==
    {to_base58(x) : x \in UidSamples} \cup {bs58_encode(p) : p \in Payloads} \cup OddTexts
Base64Texts ==
    {to_base64(x) : x \in UidSamples} \cup {to_unpadded_base64(x) : x \in UidSamples}
        \cup {Encode(BASE64, p) : p \in Payloads}
        \cup {Encode(BASE64_NOPAD, p) : p \in Payloads}
        \cup OddTexts

(***************************************************************************)
(* State: the log of Uid::new() calls (the second read, the random bytes   *)
(* drawn, the identifier returned) and the call made on the library whose  *)
(* result the caller holds (operation, argument, return value).            *)
(***************************************************************************)
Called(op, arg, ret) == [op |-> op, arg |-> arg, ret |-> ret]

Init ==
    /\ ids = <<>>
    /\ call = Called("none", <<>>, <<>>)

New ==
    \E now \in Timestamps, rnd \in Rands :
        /\ call.op = "none"
        /\ Len(ids) < MaxIds
        /\ ids' = Append(ids, [now |-> now, rnd |-> rnd, uid |-> new(now, rnd)])
        /\ call' = Called("new", <<now, rnd>>, new(now, rnd))

IntoI64 ==
    \E x \in UidSamples :
        /\ call.op = "none"
        /\ call' = Called("i64_from", x, i64_from(x))
        /\ UNCHANGED ids

FromI64 ==
    \E v \in I64Samples :
        /\ call.op = "none"
        /\ call' = Called("Uid_from", v, Uid_from(v))
        /\ UNCHANGED ids

IntoBytes ==
    \E x \in UidSamples :
        /\ call.op = "none"
        /\ call' = Called("bytes_from", x, bytes_from(x))
        /\ UNCHANGED ids

TryFrom ==
    \E b \in Payloads :
        /\ call.op = "none"
        /\ call' = Called("try_from", b, try_from(b))
        /\ UNCHANGED ids

ToBase16 ==
    \E x \in UidSamples :
        /\ call.op = "none"
        /\ call' = Called("to_base16", x, to_base16(x))
        /\ UNCHANGED ids

ToHex ==
    \E x \in UidSamples :
        /\ call.op = "none"
        /\ call' = Called("to_hex", x, to_hex(x))
        /\ UNCHANGED ids

FromBase16 ==
    \E t \in HexTexts :
        /\ call.op = "none"
        /\ call' = Called("from_base16", t, from_base16(t))
        /\ UNCHANGED ids

FromHex ==
    \E t \in HexTexts :
        /\ call.op = "none"
        /\ call' = Called("from_hex", t, from_hex(t))
        /\ UNCHANGED ids

ToBase32 ==
    \E x \in UidSamples :
        /\ call.op = "none"
        /\ call' = Called("to_base32", x, to_base32(x))
        /\ UNCHANGED ids

ToUnpaddedBase32 ==
    \E x \in UidSamples :
        /\ call.op = "none"
        /\ call' = Called("to_unpadded_base32", x, to_unpadded_base32(x))
        /\ UNCHANGED ids

FromBase32 ==
    \E t \in Base32Texts :
        /\ call.op = "none"
        /\ call' = Called("from_base32", t, from_base32(t))
        /\ UNCHANGED ids

FromUnpaddedBase32 ==
    \E t \in Base32Texts :
        /\ call.op = "none"
        /\ call' = Called("from_unpadded_base32", t, from_unpadded_base32(t))
        /\ UNCHANGED ids

ToBase58 ==
    \E x \in UidSamples :
        /\ call.op = "none"
        /\ call' = Called("to_base58", x, to_base58(x))
        /\ UNCHANGED ids

FromBase58 ==
    \E t \in Base58Texts :
        /\ call.op = "none"
        /\ call' = Called("from_base58", t, from_base58(t))
        /\ UNCHANGED ids

ToBase64 ==
    \E x \in UidSamples :
        /\ call.op = "none"
        /\ call' = Called("to_base64", x, to_base64(x))
        /\ UNCHANGED ids

ToUnpaddedBase64 ==
    \E x \in UidSamples :
        /\ call.op = "none"
        /\ call' = Called("to_unpadded_base64", x, to_unpadded_base64(x))
        /\ UNCHANGED ids

FromBase64 ==
    \E t \in Base64Texts :
        /\ call.op = "none"
        /\ call' = Called("from_base64", t, from_base64(t))
        /\ UNCHANGED ids

FromUnpaddedBase64 ==
    \E t \in Base64Texts :
        /\ call.op = "none"
        /\ call' = Called("from_unpadded_base64", t, from_unpadded_base64(t))
        /\ UNCHANGED ids

\* the caller takes the result: the library holds nothing between calls
Return ==
    /\ call.op # "none"
    /\ call' = Called("none", <<>>, <<>>)
    /\ UNCHANGED ids

\* the conversions and the text codecs: pure functions of their argument
NextCodec ==
    \/ IntoI64 \/ FromI64 \/ IntoBytes \/ TryFrom
    \/ ToBase16 \/ ToHex \/ FromBase16 \/ FromHex
    \/ ToBase32 \/ ToUnpaddedBase32 \/ FromBase32 \/ FromUnpaddedBase32
    \/ ToBase58 \/ FromBase58
    \/ ToBase64 \/ ToUnpaddedBase64 \/ FromBase64 \/ FromUnpaddedBase64

Next == New \/ NextCodec \/ Return

Spec == Init /\ [][Next]_vars

\* The conversions and codecs neither read nor write the log, and a claim
\* reads either the log or the last call: each is checked on the part of
\* Spec that moves what it reads.
SpecNew == Init /\ [][New \/ Return]_vars
SpecCodec == Init /\ [][NextCodec \/ Return]_vars

(***************************************************************************)
(* Properties                                                              *)
(***************************************************************************)
IsDecodingErr(r) == r.tag = "Err" /\ r.err.kind = "Decoding"

\* the number a sequence of decimal digits writes, -1 when one is no digit
RECURSIVE ParseDecimal(_)
ParseDecimal(s) ==
    LET d == <<"0", "1", "2", "3", "4", "5", "6", "7", "8", "9">>
        last == IndexIn(d, s[Len(s)]) - 1
        front == ParseDecimal(SubSeq(s, 1, Len(s) - 1))
    IN  IF s = <<>> THEN 0
        ELSE IF last < 0 \/ front < 0 THEN -1
        ELSE 10 * front + last

\* the bytes of b read as a big-endian number are the bit pattern of v
BigEndianOf(b, v) ==
    /\ Len(b) = 8
    /\ b[1] * 256 + b[2] = Unsigned16(v.hi)
    /\ b[3] * 65536 + b[4] * 256 + b[5] = v.mid
    /\ b[6] * 65536 + b[7] * 256 + b[8] = v.lo

\* C1: for every Uid x, the 8 bytes From<Uid> for [u8; 8] gives are x's bit
\* pattern most significant byte first, and TryFrom<&[u8]> on them gives
\* Ok(x) back.
BytesRoundTrip ==
    /\ call.op = "bytes_from" =>
        /\ BigEndianOf(call.ret, call.arg[1])
        /\ try_from(call.ret) = Ok(call.arg)
    /\ call.op = "try_from" =>
        /\ \A x \in UidSamples : call.arg = bytes_from(x) => call.ret = Ok(x)
        /\ call.ret.tag = "Ok" => BigEndianOf(call.arg, call.ret.val[1])

BytesRoundTripWitness ==
    /\ call.op = "try_from"
    /\ call.arg = bytes_from(Uid(XMin))
    /\ call.arg = <<128, 0, 0, 0, 0, 0, 0, 0>>
    /\ call.ret = Ok(Uid(XMin))

\* C2: Uid::from(i64) and i64::from(Uid) are inverses of each other, for
\* negative values and for i64::MIN and i64::MAX too.
I64RoundTrip ==
    /\ call.op = "Uid_from" => i64_from(call.ret) = call.arg
    /\ call.op = "i64_from" => Uid_from(call.ret) = call.arg

I64RoundTripWitness ==
    /\ call.op = "i64_from"
    /\ call.arg = Uid(XMin)
    /\ call.ret.hi < 0
    /\ Uid_from(call.ret) = Uid(XMin)

\* C3: Uid::try_from(bytes) is Err(Decoding(msg)) exactly when the slice is
\* not 8 bytes long, msg then ends with the received length, and a slice of
\* 8 bytes is Ok whatever its bytes.
TryFromLength ==
    call.op = "try_from" =>
        /\ call.ret.tag \in {"Ok", "Err"}
        /\ (call.ret.tag = "Err") <=> (Len(call.arg) # 8)
        /\ call.ret.tag = "Err" =>
            /\ call.ret.err.kind = "Decoding"
            /\ ParseDecimal(Tail(call.ret.err.msg)) = Len(call.arg)

TryFromLengthWitness ==
    /\ call.op = "try_from"
    /\ Len(call.arg) = 9
    /\ IsDecodingErr(call.ret)
    /\ Tail(call.ret.err.msg) = <<"9">>

\* C4: Uid::new() at second T with random bytes r is (T << 24) | r: its top
\* 5 big-endian bytes are the low 40 bits of T, its bottom 3 bytes are r.
NewLayout ==
    call.op = "new" =>
        LET T == call.arg[1]
            r == call.arg[2]
            v == i64_from(call.ret)
        IN  /\ SubSeq(to_be_bytes(v), 1, 5) = SubSeq(to_be_bytes(T), 4, 8)
            /\ SubSeq(to_be_bytes(v), 6, 8) = r
            /\ Unsigned16(v.hi) = T.mid % 2^16
            /\ v.mid = T.lo
            /\ v.lo = r[1] * 65536 + r[2] * 256 + r[3]

NewLayoutWitness ==
    /\ call.op = "new"
    /\ call.arg = <<TPast40, <<255, 255, 255>>>>
    /\ to_be_bytes(i64_from(call.ret)) = <<0, 0, 0, 0, 1, 255, 255, 255>>

\* C5: for every Uid x and every encoding, the decoder gives Ok(x) on the
\* text its encoder writes for x.
TextRoundTrip ==
    \A x \in UidSamples :
        /\ call.op = "from_base16" /\ call.arg = to_base16(x) => call.ret = Ok(x)
        /\ call.op = "from_hex" /\ call.arg = to_hex(x) => call.ret = Ok(x)
        /\ call.op = "from_base32" /\ call.arg = to_base32(x) => call.ret = Ok(x)
        /\ call.op = "from_unpadded_base32" /\ call.arg = to_unpadded_base32(x)
            => call.ret = Ok(x)
        /\ call.op = "from_base58" /\ call.arg = to_base58(x) => call.ret = Ok(x)
        /\ call.op = "from_base64" /\ call.arg = to_base64(x) => call.ret = Ok(x)
        /\ call.op = "from_unpadded_base64" /\ call.arg = to_unpadded_base64(x)
            => call.ret = Ok(x)

TextRoundTripWitness ==
    /\ call.op = "from_base58"
    /\ call.arg = to_base58(Uid(XLow))
    /\ call.arg = <<"1", "1", "1", "1", "1", "1", "1", "5", "Q">>
    /\ call.ret = Ok(Uid(XLow))

\* C6: every text decoder gives Err(Decoding) on the encoding, under its own
\* alphabet, of a payload that is shorter or longer than 8 bytes.
DecodersCheckLength ==
    \A p \in Payloads :
        Len(p) # 8 =>
            /\ call.op \in {"from_base16", "from_hex"} /\ call.arg = hex_string(p)
                => IsDecodingErr(call.ret)
            /\ call.op = "from_base32" /\ call.arg = Encode(BASE32, p)
                => IsDecodingErr(call.ret)
            /\ call.op = "from_unpadded_base32" /\ call.arg = Encode(BASE32_NOPAD, p)
                => IsDecodingErr(call.ret)
            /\ call.op = "from_base58" /\ call.arg = bs58_encode(p)
                => IsDecodingErr(call.ret)
            /\ call.op = "from_base64" /\ call.arg = Encode(BASE64, p)
                => IsDecodingErr(call.ret)
            /\ call.op = "from_unpadded_base64" /\ call.arg = Encode(BASE64_NOPAD, p)
                => IsDecodingErr(call.ret)

\* a < b on the seconds read, for seconds whose shift by 24 stays inside an
\* i64: -2^39 <= t < 2^39
ShiftInRange(t) ==
    \/ t.hi = 0 /\ t.mid < 2^15
    \/ t.hi = -1 /\ t.mid >= 2^24 - 2^15

\* C7 as stated: identifiers generated at seconds T1 < T2 are ordered the
\* same way as raw integers, whatever their random bits.
TimeOrdered ==
    \A i, j \in DOMAIN ids :
        I64Lt(ids[i].now, ids[j].now) => I64Lt(i64_from(ids[i].uid), i64_from(ids[j].uid))

\* C7, amended: identifiers generated at seconds T1 < T2, both in
\* -2^39 .. 2^39 - 1, are ordered the same way as raw integers, whatever
\* their random bits.
TimeOrderedInRange ==
    \A i, j \in DOMAIN ids :
        /\ ShiftInRange(ids[i].now)
        /\ ShiftInRange(ids[j].now)
        /\ I64Lt(ids[i].now, ids[j].now)
        => I64Lt(i64_from(ids[i].uid), i64_from(ids[j].uid))

TimeOrderedWitness ==
    /\ Len(ids) = 2
    /\ ids[1].now = TNow /\ ids[1].rnd = <<255, 255, 255>>
    /\ ids[2].now = TNext /\ ids[2].rnd = <<0, 0, 0>>
    /\ I64Lt(i64_from(ids[1].uid), i64_from(ids[2].uid))

\* C8: to_base16(x) is 16 lowercase hexadecimal characters, two for each of
\* x's 8 big-endian bytes in order; to_hex and from_hex give what to_base16
\* and from_base16 give.
LowerHexDigits ==
    {"0", "1", "2", "3", "4", "5", "6", "7", "8", "9", "a", "b", "c", "d", "e", "f"}

Base16Rendering ==
    /\ call.op \in {"to_base16", "to_hex"} =>
        /\ Len(call.ret) = 16
        /\ \A k \in 1..16 : call.ret[k] \in LowerHexDigits
        /\ \A i \in 1..8 :
            16 * HexValue(call.ret[2 * i - 1]) + HexValue(call.ret[2 * i])
                = to_be_bytes(call.arg[1])[i]
    /\ call.op = "to_hex" => call.ret = to_base16(call.arg)
    /\ call.op = "from_hex" => call.ret = from_base16(call.arg)

Base16RenderingWitness ==
    /\ call.op = "to_hex"
    /\ call.arg = Uid(XLow)
    /\ call.ret = << "0", "0", "0", "0", "0", "0", "0", "0",
                     "0", "0", "0", "0", "0", "0", "f", "f" >>

\* what the library's decoder makes of the whole text, for each decoder
DecodedPayload(op, text) ==
    IF op \in {"from_base16", "from_hex"}
    THEN LET d == hex_decode(text, [i \in 1..(Len(text) \div 2) |-> 0])
         IN  IF d.res.tag = "Err" THEN d.res ELSE Ok(d.dst)
    ELSE IF op = "from_base32" THEN Decode(BASE32, text)
    ELSE IF op = "from_unpadded_base32" THEN Decode(BASE32_NOPAD, text)
    ELSE IF op = "from_base58" THEN bs58_decode(text)
    ELSE IF op = "from_base64" THEN Decode(BASE64, text)
    ELSE Decode(BASE64_NOPAD, text)

Decoders ==
    {"from_base16", "from_hex", "from_base32", "from_unpadded_base32",
     "from_base58", "from_base64", "from_unpadded_base64"}

\* C9: a decode call ends in one of three ways: Err(Decoding) because the
\* text does not decode under the alphabet, Err(Decoding) because it decodes
\* to a number of bytes other than 8, or Ok(Uid) of exactly the 8 decoded
\* bytes.
DecodeOutcomes ==
    call.op \in Decoders =>
        LET d == DecodedPayload(call.op, call.arg)
        IN  \/ d.tag = "Err" /\ IsDecodingErr(call.ret)
            \/ d.tag = "Ok" /\ Len(d.val) # 8 /\ IsDecodingErr(call.ret)
            \/ d.tag = "Ok" /\ Len(d.val) = 8 /\ call.ret = Ok(Uid(from_be_bytes(d.val)))

\* C10: the padded decoders refuse the unpadded text of every Uid and the
\* unpadded decoders its padded text: base32 writes 13 symbols and 3 '=',
\* base64 11 symbols and 1 '='.
PaddingNotInterchangeable ==
    /\ \A x \in UidSamples :
        /\ call.op = "from_base32" /\ call.arg = to_unpadded_base32(x)
            => IsDecodingErr(call.ret)
        /\ call.op = "from_unpadded_base32" /\ call.arg = to_base32(x)
            => IsDecodingErr(call.ret)
        /\ call.op = "from_base64" /\ call.arg = to_unpadded_base64(x)
            => IsDecodingErr(call.ret)
        /\ call.op = "from_unpadded_base64" /\ call.arg = to_base64(x)
            => IsDecodingErr(call.ret)
    /\ call.op = "to_base32" =>
        /\ Len(call.ret) = 16
        /\ \A k \in 1..16 : (call.ret[k] = "=") <=> (k > 13)
    /\ call.op = "to_unpadded_base32" =>
        Len(call.ret) = 13 /\ \A k \in 1..13 : call.ret[k] # "="
    /\ call.op = "to_base64" =>
        /\ Len(call.ret) = 12
        /\ \A k \in 1..12 : (call.ret[k] = "=") <=> (k > 11)
    /\ call.op = "to_unpadded_base64" =>
        Len(call.ret) = 11 /\ \A k \in 1..11 : call.ret[k] # "="

PaddingNotInterchangeableWitness ==
    /\ call.op = "from_base32"
    /\ call.arg = to_unpadded_base32(Uid(XMixed))
    /\ Len(call.arg) = 13
    /\ IsDecodingErr(call.ret)

====
